---- MODULE Spec2Model ----
(***************************************************************************)
(* RideZone REST backend: the user routes (/register, /auth/google-signin, *)
(* /login) over the "users" collection of the document store.              *)
(*                                                                         *)
(* The repository holds two revisions of the user routes:                  *)
(*   "part_000"  src/unnamed/part_000: register lowercases the email, the  *)
(*               merge stamps no updatedAt, and there is a /login route;   *)
(*   "server"    src/backend/server.js: lines 44-112, and the same routes  *)
(*               again at lines 318-417.                                   *)
(* The revision that runs is fixed at start-up (variable variant).         *)
(*                                                                         *)
(* server.js also normalises the product images when it starts: run()      *)
(* assigns the collection handles and then awaits an updateMany over the   *)
(* "products" collection, while GET /products and GET /products/:id are    *)
(* already being served (specification SpecCatalog).                       *)
(***************************************************************************)
EXTENDS Integers, Sequences, FiniteSets, Bags, TLC

VARIABLES
    variant,        \* which revision of the server is running
    userCollection, \* "unset" until run() has connected, then "set"
    users,          \* the documents of db.collection("users"), in insertion order
    clock,          \* the wall clock read by new Date()
    last,           \* the request completed last: its inputs, response, store before it
    pending,        \* requests between their find and their write (interleaved runs)
    products,       \* the documents of db.collection("products"), in insertion order
    copy,           \* which of the two copies of run() in server.js is running
    startup,        \* where run() stands: "connecting", "migrating", "ready"
    migration,      \* runs of the image migration so far, and the last modifiedCount
    seen            \* the response of the last GET /products or GET /products/:id

vars == <<variant, userCollection, users, clock, last, pending,
          products, copy, startup, migration, seen>>

\* the product side of the state; the user routes leave it alone
catalogue == <<products, copy, startup, migration, seen>>

\* ---------------------------------------------------------------- bounds
\* documents the users collection may hold
MaxUsers == 2
\* distinct instants new Date() may return
MaxClock == 2
\* request handlers that may be suspended at an await at the same time
MaxInflight == 2
\* documents the products collection may hold
MaxProducts == 2
\* pieces of text an image stored before start-up is made of
MaxPieces == 2
\* times the server is started, each start running the migration once
MaxRuns == 2

\* ---------------------------------------------------------------- values
\* JavaScript undefined / null (the driver stores undefined as null)
NULL == "null"

\* !v for the string-valued fields
Falsy(v) == v = NULL \/ v = ""

\* a || b
OrElse(a, b) == IF Falsy(a) THEN b ELSE a

Variants == {"part_000", "server"}

\* String.prototype.toLowerCase on one character of the email alphabet
LowerChar(c) ==
    CASE c = "A" -> "a"
      [] c = "L" -> "l"
      [] c = "B" -> "b"
      [] c = "O" -> "o"
      [] OTHER -> c

\* email.toLowerCase(); an email is a sequence of characters
toLowerCase(s) == [i \in DOMAIN s |-> LowerChar(s[i])]

\* request field values; << >> is the empty (or missing) email
Emails == {<<"a", "l">>, <<"A", "l">>}
NoEmail == << >>
RegisterNames == {"n1"}
GoogleNames == {"n2"}
Passwords == {"p", "q"}
RegisterImages == {"", "i1"}
GoogleImages == {"", "i1"}
GoogleIds == {NULL, "g1", "g2"}
\* the salts bcrypt.genSalt may draw
Salts == {"s1"}

\* the stored password of a document without a password field
NoPassword == << >>

\* bcrypt.hash(password, 10): a salted one-way digest (collision-free here)
bcryptHash(password, salt) == <<salt, password>>

\* Mutant of bcryptCompare: every password matches every hash.
bcryptCompareAny(password, hash) == TRUE

\* bcrypt.compare(password, hash) for a hash that is a string
bcryptCompare(password, hash) == hash = bcryptHash(password, hash[1])

\* bcrypt.compare rejects ("Illegal arguments") when the hash is not a string
bcryptThrows(hash) == hash = NoPassword

Min(S) == CHOOSE x \in S : \A y \in S : x <= y

\* collection.findOne({ email }): index of the first match, 0 when none
FindOne(store, email) ==
    LET m == {i \in DOMAIN store : store[i].email = email}
    IN  IF m = {} THEN 0 ELSE Min(m)

\* collection.updateOne({ email }, { $set: set }): the first match gets the
\* fields of set (googleId, image, provider and, when given, updatedAt)
UpdateOne(store, email, set) ==
    LET i == FindOne(store, email)
    IN  IF i = 0 THEN store
        ELSE [store EXCEPT ![i] =
                 [@ EXCEPT !.googleId = set.googleId,
                           !.image = set.image,
                           !.provider = set.provider,
                           !.updatedAt = IF "updatedAt" \in DOMAIN set
                                         THEN set.updatedAt ELSE @]]

\* a request body; the fields a route does not read are NULL / empty
Req(name, email, password, image, googleId) ==
    [name |-> name, email |-> email, password |-> password,
     image |-> image, googleId |-> googleId]

NoReq == Req(NULL, NoEmail, NULL, NULL, NULL)

Response(status, message, user) ==
    [status |-> status, message |-> message, user |-> user]

NoResponse == Response(0, NULL, NULL)

Completed(op, req, resp, before, repeat) ==
    [op |-> op, req |-> req, resp |-> resp, before |-> before, repeat |-> repeat]

NoRequest == Completed("none", NoReq, NoResponse, << >>, FALSE)

\* the request now completing repeats the one completed just before it, and
\* that one reached the store (it was not turned away with a 500)
Repeats(op, req) ==
    last.op = op /\ last.req = req /\ last.resp.status # 500

\* res.status(..).json(..): the handler is over
Respond(op, req, resp) ==
    last' = Completed(op, req, resp, users, Repeats(op, req))

\* new Date(): every read returns a later instant than the one before, until
\* MaxClock instants have been seen; reads after that fall in the same instant
Tick(t) == IF t < MaxClock THEN t + 1 ELSE t

\* ---------------------------------------------------------------- /register
\* "DB not connected" / "Database not connected yet"
NotConnected ==
    Response(500,
             IF variant = "part_000" THEN "DB not connected"
             ELSE "Database not connected yet", NULL)

\* the email register looks up and stores: normalizedEmail in part_000,
\* the raw email in server.js
RegisterEmail(req) ==
    IF variant = "part_000" THEN toLowerCase(req.email) ELSE req.email

\* the early returns of /register; NoResponse when the request passes them
RegisterReject(req) ==
    IF userCollection = "unset" THEN NotConnected
    ELSE IF variant = "part_000"
    THEN IF req.email = NoEmail THEN Response(400, "Email is required", NULL)
         ELSE IF Falsy(req.name) \/ Falsy(req.password)
         THEN Response(400, "Name and password are required", NULL)
         ELSE NoResponse
    ELSE IF Falsy(req.name) \/ req.email = NoEmail \/ Falsy(req.password)
         THEN Response(400, "All fields are required", NULL)
         ELSE NoResponse

UserExists == Response(400, "User already exists", NULL)

\* the document insertOne receives; server.js stores no image
RegisterDoc(req, id, salt, now) ==
    [_id |-> id,
     name |-> req.name,
     email |-> RegisterEmail(req),
     password |-> bcryptHash(req.password, salt),
     image |-> IF variant = "part_000" THEN OrElse(req.image, NULL) ELSE NULL,
     provider |-> "credentials",
     googleId |-> NULL,
     createdAt |-> now,
     updatedAt |-> 0]

RegisterOk(id) ==
    Response(201,
             IF variant = "part_000" THEN "Registration successful"
             ELSE "User registered successfully", [id |-> id])

\* the whole handler, its awaits not interleaved with another request
Register(req) ==
    /\ LET early == RegisterReject(req)
           existing == FindOne(users, RegisterEmail(req))
       IN  \/ /\ early # NoResponse
              /\ Respond("register", req, early)
              /\ UNCHANGED <<users, clock>>
           \/ /\ early = NoResponse
              /\ existing # 0
              /\ Respond("register", req, UserExists)
              /\ UNCHANGED <<users, clock>>
           \/ /\ early = NoResponse
              /\ existing = 0
              /\ Len(users) < MaxUsers
              /\ \E salt \in Salts :
                    users' = Append(users, RegisterDoc(req, Len(users) + 1, salt, clock))
              /\ clock' = Tick(clock)
              /\ Respond("register", req, RegisterOk(Len(users) + 1))
    /\ UNCHANGED <<variant, userCollection, pending>>
    /\ UNCHANGED catalogue

\* ---------------------------------------------------------------- /auth/google-signin
\* the early returns of /auth/google-signin
GoogleReject(req) ==
    IF userCollection = "unset" THEN NotConnected
    ELSE IF req.email = NoEmail
    THEN Response(400,
                  IF variant = "part_000" THEN "Email required"
                  ELSE "Email is required", NULL)
    ELSE NoResponse

\* let user = await userCollection.findOne({ email }): << >> or <<document>>
GoogleFindUser(store, req) ==
    LET i == FindOne(store, req.email)
    IN  IF i = 0 THEN << >> ELSE <<store[i]>>

\* the document insertOne receives when no user was found
GoogleDoc(req, id, now) ==
    [_id |-> id,
     name |-> req.name,
     email |-> req.email,
     password |-> NoPassword,
     image |-> req.image,
     provider |-> "google",
     googleId |-> req.googleId,
     createdAt |-> now,
     updatedAt |-> 0]

\* Mutant of GoogleNeedsMerge: the merge runs for every user found.
GoogleAlwaysMerge(user) == TRUE

\* if (!user.googleId)
GoogleNeedsMerge(user) == Falsy(user.googleId)

\* Mutant of GoogleSet: the merge leaves provider at "credentials".
GoogleSetCredentials(req, user, now) ==
    [googleId |-> req.googleId,
     image |-> OrElse(req.image, user.image),
     provider |-> "credentials"]

\* the $set of the merge; only server.js stamps updatedAt
GoogleSet(req, user, now) ==
    IF variant = "part_000"
    THEN [googleId |-> req.googleId,
          image |-> OrElse(req.image, user.image),
          provider |-> "google"]
    ELSE [googleId |-> req.googleId,
          image |-> OrElse(req.image, user.image),
          provider |-> "google",
          updatedAt |-> now]

\* Mutant of GoogleStore: the merge replaces the whole document by a Google
\* document, so the name and the password hash are lost.
GoogleStoreReplacing(store, req, found, now) ==
    IF found = << >> THEN Append(store, GoogleDoc(req, Len(store) + 1, now))
    ELSE IF GoogleNeedsMerge(found[1])
    THEN [store EXCEPT ![found[1]._id] = GoogleDoc(req, found[1]._id, now)]
    ELSE store

\* the store after the handler's write, given the user its find returned
GoogleStore(store, req, found, now) ==
    IF found = << >> THEN Append(store, GoogleDoc(req, Len(store) + 1, now))
    ELSE IF GoogleNeedsMerge(found[1])
    THEN UpdateOne(store, req.email, GoogleSet(req, found[1], now))
    ELSE store

\* { _id, name, email, image }
GoogleView(id, name, email, image) ==
    [_id |-> id, name |-> name, email |-> email, image |-> image]

\* 201 with the request's own fields, or 200 with the user the find returned
GoogleResponse(req, found, insertedId) ==
    IF found = << >>
    THEN Response(201,
                  IF variant = "part_000" THEN "Google user created"
                  ELSE "User created successfully",
                  GoogleView(insertedId, req.name, req.email, req.image))
    ELSE Response(200,
                  IF variant = "part_000" THEN "Google login success"
                  ELSE "User already exists",
                  GoogleView(found[1]._id, found[1].name, found[1].email,
                             found[1].image))

\* new Date() is read by the insert, and by the merge in server.js
GoogleReadsClock(found) ==
    \/ found = << >>
    \/ GoogleNeedsMerge(found[1]) /\ variant # "part_000"

\* the whole handler, its awaits not interleaved with another request
GoogleSignin(req) ==
    /\ LET early == GoogleReject(req)
           found == GoogleFindUser(users, req)
       IN  \/ /\ early # NoResponse
              /\ Respond("google", req, early)
              /\ UNCHANGED <<users, clock>>
           \/ /\ early = NoResponse
              /\ found = << >> => Len(users) < MaxUsers
              /\ users' = GoogleStore(users, req, found, clock)
              /\ clock' = IF GoogleReadsClock(found) THEN Tick(clock) ELSE clock
              /\ Respond("google", req, GoogleResponse(req, found, Len(users) + 1))
    /\ UNCHANGED <<variant, userCollection, pending>>
    /\ UNCHANGED catalogue

\* ---------------------------------------------------------------- /login
\* { id, name, email, provider }
LoginView(user) ==
    [id |-> user._id, name |-> user.name, email |-> user.email,
     provider |-> user.provider]

\* the response of /login over the store; the handler writes nothing
LoginResponse(store, req) ==
    LET i == FindOne(store, req.email)
    IN  IF userCollection = "unset" THEN NotConnected
        ELSE IF req.email = NoEmail \/ Falsy(req.password)
        THEN Response(400, "Email & Password required", NULL)
        ELSE IF i = 0 THEN Response(400, "Invalid email", NULL)
        ELSE IF bcryptThrows(store[i].password)
        THEN Response(500, "Server error", NULL)
        ELSE IF ~bcryptCompare(req.password, store[i].password)
        THEN Response(400, "Incorrect password", NULL)
        ELSE Response(200, "Login successful", LoginView(store[i]))

\* the route exists in part_000 only
Login(req) ==
    /\ variant = "part_000"
    /\ Respond("login", req, LoginResponse(users, req))
    /\ UNCHANGED <<variant, userCollection, users, clock, pending>>
    /\ UNCHANGED catalogue

\* ---------------------------------------------------------------- product images
\* An image is a string, kept as the sequence of its characters, or null.

\* a product document without an image
NullImage == <<NULL>>

\* "https://via.placeholder.com/150"
Placeholder ==
    <<"h", "t", "t", "p", "s", ":", "/", "/", "v", "i", "a", ".", "p",
      "l", "a", "c", "e", "h", "o", "l", "d", "e", "r", ".", "c", "o",
      "m", "/", "1", "5", "0">>

\* "i.ibb.co.com": the $regex pattern and the text $replaceOne looks for
Broken ==
    <<"i", ".", "i", "b", "b", ".", "c", "o", ".", "c", "o", "m">>

\* "i.ibb.co": the text $replaceOne puts in its place
Fixed ==
    <<"i", ".", "i", "b", "b", ".", "c", "o">>

\* pat occurs in s at position i; as a regular expression a "." of the
\* pattern stands for any character, as plain text it stands for itself
MatchesAt(s, i, pat, regex) ==
    /\ i + Len(pat) - 1 <= Len(s)
    /\ \A k \in 1..Len(pat) :
        \/ s[i + k - 1] = pat[k]
        \/ regex /\ pat[k] = "."

\* { image: { $regex: pat } }: an unanchored match; null never matches
RegexTest(image, pat) ==
    /\ image # NullImage
    /\ \E i \in 1..Len(image) : MatchesAt(image, i, pat, TRUE)

\* the first position at which find occurs in s as plain text, 0 if none
IndexOf(s, find) ==
    LET at == {i \in 1..Len(s) : MatchesAt(s, i, find, FALSE)}
    IN IF at = {} THEN 0 ELSE Min(at)

\* $replaceOne: the first occurrence of find only; null stays null
ReplaceOne(input, find, replacement) ==
    IF input = NullImage THEN NullImage
    ELSE LET i == IndexOf(input, find)
         IN IF i = 0 THEN input
            ELSE SubSeq(input, 1, i - 1) \o replacement
                 \o SubSeq(input, i + Len(find), Len(input))

\* the filter of the updateMany of run(): the first copy of server.js also
\* selects the placeholder, the second copy selects by the pattern only
MigrationFilter(c, image) ==
    \/ RegexTest(image, Broken)
    \/ c = 1 /\ image = Placeholder

\* the $set pipeline stage of the updateMany of run()
MigrationImage(c, image) ==
    IF c = 1 /\ image = Placeholder THEN NullImage
    ELSE ReplaceOne(image, Broken, Fixed)

\* updateMany: every selected document gets the new image; modifiedCount
\* counts the documents the update changed
UpdateMany(c, store) ==
    LET after == [i \in 1..Len(store) |->
                    IF MigrationFilter(c, store[i].image)
                    THEN [store[i] EXCEPT !.image = MigrationImage(c, @)]
                    ELSE store[i]]
    IN [products |-> after,
        modifiedCount |-> Cardinality({i \in 1..Len(store) : after[i] # store[i]})]

\* no migration has run yet
NoMigration == [runs |-> 0, modifiedCount |-> 0]

\* no product request has been answered yet
NoSeen == [status |-> 0, message |-> NULL, body |-> << >>]

\* ---------------------------------------------------------------- run()
\* await client.connect(); userCollection = db.collection("users");
\* productCollection = db.collection("products"): both handles are assigned
\* in the same synchronous block, userCollection stands for the two.
\* In server.js run() goes on to await the image migration.
Connect ==
    /\ userCollection = "unset"
    /\ userCollection' = "set"
    /\ startup' = IF variant = "server" THEN "migrating" ELSE "ready"
    /\ UNCHANGED <<variant, users, clock, last, pending>>
    /\ UNCHANGED <<products, copy, migration, seen>>

\* ---------------------------------------------------------------- specification
\* the request bodies sent: every combination of non-empty fields, and one
\* body for each field a route requires, with that field empty
RegisterReqs ==
    {Req(n, e, p, i, NULL) : n \in RegisterNames, e \in Emails,
                             p \in Passwords, i \in RegisterImages}
    \cup {Req("", <<"a", "l">>, "p", "", NULL),
          Req("n1", NoEmail, "p", "", NULL),
          Req("n1", <<"a", "l">>, "", "", NULL)}

GoogleReqs ==
    {Req(n, e, NULL, i, g) : n \in GoogleNames, e \in Emails,
                             i \in GoogleImages, g \in GoogleIds}
    \cup {Req("n2", NoEmail, NULL, "i1", "g1")}

LoginReqs ==
    {Req(NULL, e, p, NULL, NULL) : e \in Emails, p \in Passwords}
    \cup {Req(NULL, NoEmail, "p", NULL, NULL),
          Req(NULL, <<"a", "l">>, "", NULL, NULL)}

Init ==
    /\ variant \in Variants
    /\ userCollection = "unset"
    /\ users = << >>
    /\ clock = 1
    /\ last = NoRequest
    /\ pending = EmptyBag
    /\ products = << >>
    /\ copy = 1
    /\ startup = "connecting"
    /\ migration = NoMigration
    /\ seen = NoSeen

Next ==
    \/ Connect
    \/ \E req \in RegisterReqs : Register(req)
    \/ \E req \in GoogleReqs : GoogleSignin(req)
    \/ \E req \in LoginReqs : Login(req)

Spec == Init /\ [][Next]_vars

\* ---------------------------------------------------------------- overlapping requests
\* Every await hands control to the other requests: a handler's findOne and
\* its insertOne / updateOne are separate steps of the store.

\* a handler suspended after its findOne
Suspended(op, req, found) == [op |-> op, req |-> req, found |-> found]

Inflight == BagCardinality(pending)

\* /register up to the answer of findOne
RegisterFind(req) ==
    /\ LET early == RegisterReject(req)
           existing == FindOne(users, RegisterEmail(req))
       IN  \/ /\ early # NoResponse
              /\ Respond("register", req, early)
              /\ UNCHANGED pending
           \/ /\ early = NoResponse
              /\ existing # 0
              /\ Respond("register", req, UserExists)
              /\ UNCHANGED pending
           \/ /\ early = NoResponse
              /\ existing = 0
              /\ Inflight < MaxInflight
              /\ pending' = pending (+) SetToBag({Suspended("register", req, << >>)})
              /\ UNCHANGED last
    /\ UNCHANGED <<variant, userCollection, users, clock>>
    /\ UNCHANGED catalogue

\* /register from bcrypt.hash to the response, had the store a unique index
\* on email: the insertOne of a second record fails (not what the code does)
RegisterInsertUnique(p) ==
    /\ BagIn(p, pending)
    /\ p.op = "register"
    /\ Len(users) < MaxUsers
    /\ IF FindOne(users, RegisterEmail(p.req)) = 0
       THEN /\ \E salt \in Salts :
                  users' = Append(users, RegisterDoc(p.req, Len(users) + 1, salt, clock))
            /\ clock' = Tick(clock)
            /\ Respond("register", p.req, RegisterOk(Len(users) + 1))
       ELSE /\ Respond("register", p.req, Response(500, "Server error", NULL))
            /\ UNCHANGED <<users, clock>>
    /\ pending' = pending (-) SetToBag({p})
    /\ UNCHANGED <<variant, userCollection>>
    /\ UNCHANGED catalogue

\* /register from bcrypt.hash to the response
RegisterInsert(p) ==
    /\ BagIn(p, pending)
    /\ p.op = "register"
    /\ Len(users) < MaxUsers
    /\ \E salt \in Salts :
          users' = Append(users, RegisterDoc(p.req, Len(users) + 1, salt, clock))
    /\ clock' = Tick(clock)
    /\ Respond("register", p.req, RegisterOk(Len(users) + 1))
    /\ pending' = pending (-) SetToBag({p})
    /\ UNCHANGED <<variant, userCollection>>
    /\ UNCHANGED catalogue

\* /auth/google-signin up to the answer of findOne
GoogleFind(req) ==
    /\ LET early == GoogleReject(req)
       IN  \/ /\ early # NoResponse
              /\ Respond("google", req, early)
              /\ UNCHANGED pending
           \/ /\ early = NoResponse
              /\ Inflight < MaxInflight
              /\ pending' = pending (+)
                    SetToBag({Suspended("google", req, GoogleFindUser(users, req))})
              /\ UNCHANGED last
    /\ UNCHANGED <<variant, userCollection, users, clock>>
    /\ UNCHANGED catalogue

\* /auth/google-signin from its insertOne / updateOne to the response
GoogleWrite(p) ==
    /\ BagIn(p, pending)
    /\ p.op = "google"
    /\ p.found = << >> => Len(users) < MaxUsers
    /\ users' = GoogleStore(users, p.req, p.found, clock)
    /\ clock' = IF GoogleReadsClock(p.found) THEN Tick(clock) ELSE clock
    /\ Respond("google", p.req, GoogleResponse(p.req, p.found, Len(users) + 1))
    /\ pending' = pending (-) SetToBag({p})
    /\ UNCHANGED <<variant, userCollection>>
    /\ UNCHANGED catalogue

\* the bodies sent while requests overlap
ConcRegisterReqs ==
    {Req("n1", <<"a", "l">>, "p", i, NULL) : i \in RegisterImages}

ConcGoogleReqs ==
    {Req("n2", <<"a", "l">>, NULL, i, g) : i \in GoogleImages, g \in {"g1", "g2"}}

NextConc ==
    \/ Connect
    \/ \E req \in ConcRegisterReqs : RegisterFind(req)
    \/ \E p \in BagToSet(pending) : RegisterInsert(p)
    \/ \E req \in ConcGoogleReqs : GoogleFind(req)
    \/ \E p \in BagToSet(pending) : GoogleWrite(p)

SpecConc == Init /\ [][NextConc]_vars

\* overlapping /register requests alone, for emails that differ in case only
RaceRegisterReqs ==
    {Req("n1", e, "p", i, NULL) : e \in Emails, i \in RegisterImages}

NextRace ==
    \/ Connect
    \/ \E req \in RaceRegisterReqs : RegisterFind(req)
    \/ \E p \in BagToSet(pending) : RegisterInsert(p)

SpecRace == Init /\ [][NextRace]_vars

\* ---------------------------------------------------------------- the catalogue
\* GET /products
ProductsResponse(store) ==
    IF userCollection = "unset"
    THEN [status |-> 500, message |-> "Database not connected", body |-> << >>]
    ELSE [status |-> 200, message |-> NULL, body |-> store]

GetProducts ==
    /\ seen' = ProductsResponse(products)
    /\ UNCHANGED <<variant, userCollection, users, clock, last, pending>>
    /\ UNCHANGED <<products, copy, startup, migration>>

\* GET /products/:id; id.valid is ObjectId.isValid(id), id.n the document
\* the id names
ProductResponse(store, id) ==
    IF userCollection = "unset"
    THEN [status |-> 500, message |-> "Database not connected yet", body |-> << >>]
    ELSE IF ~id.valid
    THEN [status |-> 400, message |-> "Invalid product ID", body |-> << >>]
    ELSE IF id.n > Len(store)
    THEN [status |-> 404, message |-> "Product not found", body |-> << >>]
    ELSE [status |-> 200, message |-> NULL, body |-> <<store[id.n]>>]

GetProduct(id) ==
    /\ seen' = ProductResponse(products, id)
    /\ UNCHANGED <<variant, userCollection, users, clock, last, pending>>
    /\ UNCHANGED <<products, copy, startup, migration>>

\* the awaited updateMany of run(), after the handles were assigned
Migrate ==
    /\ startup = "migrating"
    /\ LET result == UpdateMany(copy, products)
       IN /\ products' = result.products
          /\ migration' = [runs |-> migration.runs + 1,
                           modifiedCount |-> result.modifiedCount]
    /\ startup' = "ready"
    /\ UNCHANGED <<variant, userCollection, users, clock, last, pending>>
    /\ UNCHANGED <<copy, seen>>

\* the process is started again: the handles are unset, the store is kept,
\* and run() is called anew
Restart ==
    /\ startup = "ready"
    /\ migration.runs < MaxRuns
    /\ startup' = "connecting"
    /\ userCollection' = "unset"
    /\ pending' = EmptyBag
    /\ UNCHANGED <<variant, users, clock, last>>
    /\ UNCHANGED <<products, copy, migration, seen>>

\* the pieces of text of the images stored before start-up
DotCom == <<".", "c", "o", "m">>

Path == <<"/", "a">>

Lookalike == <<"i", "-", "i", "b", "b", "-", "c", "o", "-", "c", "o", "m">>

Pieces == {Broken, Fixed, DotCom, Path, Lookalike}

\* the texts made of at most n pieces
RECURSIVE Texts(_)
Texts(n) ==
    IF n = 1 THEN Pieces
    ELSE Texts(n - 1) \cup {t \o p : t \in Texts(n - 1), p \in Pieces}

ProductImages == {NullImage, Placeholder} \cup Texts(MaxPieces)

\* the stores of at most n documents
RECURSIVE Catalogues(_)
Catalogues(n) ==
    IF n = 0 THEN {<< >>}
    ELSE Catalogues(n - 1)
         \cup {Append(c, [_id |-> Len(c) + 1, image |-> i]) :
                 c \in {d \in Catalogues(n - 1) : Len(d) = n - 1},
                 i \in ProductImages}

ProductIds ==
    {[valid |-> TRUE, n |-> k] : k \in 1..MaxProducts}
    \cup {[valid |-> FALSE, n |-> 1]}

\* server.js starts over a store filled by earlier runs of the service
InitCatalog ==
    /\ variant = "server"
    /\ userCollection = "unset"
    /\ users = << >>
    /\ clock = 1
    /\ last = NoRequest
    /\ pending = EmptyBag
    /\ products \in Catalogues(MaxProducts)
    /\ copy \in {1, 2}
    /\ startup = "connecting"
    /\ migration = NoMigration
    /\ seen = NoSeen

NextCatalog ==
    \/ Connect
    \/ Migrate
    \/ Restart
    \/ GetProducts
    \/ \E id \in ProductIds : GetProduct(id)

SpecCatalog == InitCatalog /\ [][NextCatalog]_vars

\* ---------------------------------------------------------------- claims
\* the request completed last reached the store
Served == last.resp.message # "DB not connected"
          /\ last.resp.message # "Database not connected yet"

\* documents of the store before the last request whose email is e
WithEmail(e) == {i \in DOMAIN last.before : last.before[i].email = e}

\* C1: register for an email with no stored record (after lowercasing) succeeds
\* and inserts exactly one record; a register for an email that, lowercased,
\* equals that of a record register created is rejected with "User already
\* exists" and inserts nothing.
C1_RegisterOnceThenDuplicate ==
    (/\ last.op = "register"
     /\ Served
     /\ ~Falsy(last.req.name)
     /\ last.req.email # NoEmail
     /\ ~Falsy(last.req.password))
    => LET e == toLowerCase(last.req.email)
           same == {i \in DOMAIN last.before :
                       toLowerCase(last.before[i].email) = e}
           registered == {i \in same : last.before[i].password # NoPassword}
       IN  /\ same = {} =>
                /\ last.resp.status = 201
                /\ Len(users) = Len(last.before) + 1
                /\ SubSeq(users, 1, Len(last.before)) = last.before
           /\ registered # {} =>
                /\ last.resp = UserExists
                /\ users = last.before

\* C2: after any sequence of completed register and google-signin requests no
\* two records have emails that are equal after lowercasing.
C2_OneRecordPerNormalizedEmail ==
    \A i, j \in DOMAIN users :
        i # j => toLowerCase(users[i].email) # toLowerCase(users[j].email)

\* C3: for a record register created with stored email M and password P,
\* login(M, P) answers 200 with exactly { id, name, email, provider } of that
\* record, login(M, Q) with another password Q answers 400 invalid
\* credentials, and login leaves the store as it was.
C3_LoginAfterRegister ==
    last.op = "login"
    => /\ users = last.before
       /\ \A i \in WithEmail(last.req.email), P \in Passwords, salt \in Salts :
            (/\ last.before[i].password = bcryptHash(P, salt)
             /\ ~Falsy(last.req.password)
             /\ Served)
            => IF last.req.password = P
               THEN /\ last.resp.status = 200
                    /\ last.resp.user =
                         [id |-> last.before[i]._id,
                          name |-> last.before[i].name,
                          email |-> last.before[i].email,
                          provider |-> last.before[i].provider]
               ELSE /\ last.resp.status = 400
                    /\ last.resp.message \in {"Invalid email", "Incorrect password"}

\* C3 witness: a login with the right password, and the user it returned
C3_Witness ==
    /\ last.op = "login"
    /\ last.resp.status = 200
    /\ \E i \in WithEmail(last.req.email) :
          \E salt \in Salts :
              last.before[i].password = bcryptHash(last.req.password, salt)

\* C4: a login with non-empty email and password answers 400 invalid
\* credentials when no record has the email, when the record found has no
\* password, and when the password does not match the stored hash.
C4_LoginInvalidCredentials ==
    (/\ last.op = "login"
     /\ Served
     /\ last.req.email # NoEmail
     /\ ~Falsy(last.req.password)
     /\ \/ WithEmail(last.req.email) = {}
        \/ \E i \in WithEmail(last.req.email) :
              \/ last.before[i].password = NoPassword
              \/ ~bcryptCompare(last.req.password, last.before[i].password))
    => /\ last.resp.status = 400
       /\ last.resp.message \in {"Invalid email", "Incorrect password"}

\* C5: a google-signin run twice in succession with the same arguments
\* (non-empty email, googleId possibly missing) leaves the store after the
\* second run identical to the store after the first run.
C5_GoogleSigninIdempotent ==
    (/\ last.op = "google"
     /\ last.repeat
     /\ last.req.email # NoEmail)
    => users = last.before

\* the records a google-signin merged onto: found by the request's email, and
\* without a googleId
Merged ==
    {i \in WithEmail(last.req.email) :
        last.op = "google" /\ Falsy(last.before[i].googleId)}

\* C6: google-signin with the email of a record register created, which has
\* no googleId, leaves that record with provider "google", the supplied
\* googleId, its name and password hash unchanged, and inserts no record.
C6_MergeKeepsNameAndPassword ==
    \A i \in Merged :
        last.before[i].password # NoPassword
        => /\ Len(users) = Len(last.before)
           /\ users[i].provider = "google"
           /\ users[i].googleId = last.req.googleId
           /\ users[i].name = last.before[i].name
           /\ users[i].password = last.before[i].password

\* C6 witness: a credentials record was merged by a request with another name
C6_Witness ==
    \E i \in Merged :
        /\ last.before[i].password # NoPassword
        /\ last.before[i].provider = "credentials"
        /\ last.req.name # last.before[i].name
        /\ last.req.googleId = "g1"

\* C7: the user returned by a merging google-signin carries the image stored
\* after the update.
C7_MergeReturnsMergedView ==
    \A i \in Merged :
        /\ last.resp.status = 200
        /\ last.resp.user.image = users[i].image

\* the records a google-signin found with a googleId
Linked ==
    {i \in WithEmail(last.req.email) :
        last.op = "google" /\ ~Falsy(last.before[i].googleId)}

\* C8: google-signin with the email of a record that has a googleId changes
\* nothing in the store, whatever name, image and googleId it supplies, and
\* answers 200 with the stored name, email and image.
C8_LinkedUserUntouched ==
    \A i \in Linked :
        /\ users = last.before
        /\ last.resp.status = 200
        /\ last.resp.user.name = last.before[i].name
        /\ last.resp.user.email = last.before[i].email
        /\ last.resp.user.image = last.before[i].image

\* C8 witness: the request's name, image and googleId all differ from the
\* stored ones
C8_Witness ==
    \E i \in Linked :
        /\ last.req.name # last.before[i].name
        /\ last.req.image # last.before[i].image
        /\ ~Falsy(last.req.image)
        /\ last.req.googleId # last.before[i].googleId
        /\ ~Falsy(last.req.googleId)

\* C9: whether google-signin requests overlap or not, a stored googleId is
\* never removed or replaced, and a stored non-empty image is never replaced
\* by an empty one by a request that supplied an empty image.
C9_GoogleIdAndImageKept ==
    last.op = "google"
    => \A i \in DOMAIN last.before :
         /\ ~Falsy(last.before[i].googleId)
              => users[i].googleId = last.before[i].googleId
         /\ (~Falsy(last.before[i].image) /\ Falsy(last.req.image))
              => ~Falsy(users[i].image)

\* C10: no request changes a record's provider except from "credentials" to
\* "google".
C10_ProviderOneWay ==
    \A i \in DOMAIN last.before :
        /\ i \in DOMAIN users
        /\ users[i].provider # last.before[i].provider
             => /\ last.before[i].provider = "credentials"
                /\ users[i].provider = "google"

\* C10 witness: a merge wrote onto a record whose provider was "google" already
C10_Witness ==
    \E i \in Merged :
        /\ last.before[i].provider = "google"
        /\ users[i] # last.before[i]

\* an image the migration is meant to remove: it contains "i.ibb.co.com"
\* or is the placeholder URL
Unnormalized(image) ==
    \/ image = Placeholder
    \/ image # NullImage /\ IndexOf(image, Broken) # 0

\* C11: the start-up image migration is idempotent: once it has run, a second
\* run reports zero modified documents, whatever the stored images were,
\* images holding "i.ibb.co.com" more than once included.
C11_SecondRunChangesNothing ==
    migration.runs >= 2 => migration.modifiedCount = 0

\* C12: the migration completes before any product request observes the
\* catalogue: no GET /products or GET /products/:id that passes the "not
\* connected" guard returns a product whose image contains "i.ibb.co.com"
\* or equals the placeholder URL.
C12_NoUnnormalizedImageServed ==
    seen.status = 200 =>
        \A i \in 1..Len(seen.body) : ~Unnormalized(seen.body[i].image)

\* C13: find and insert of /register are separate store steps and no
\* uniqueness constraint stands between them: a register request whose
\* findOne found no record still inserts and answers 201 when another
\* request has stored a record for the same email in between, so the store
\* ends with two records for that email.
C13_LateInsertStillSucceeds ==
    [][\A p \in BagToSet(pending) :
          (RegisterInsert(p) /\ FindOne(users, RegisterEmail(p.req)) # 0) =>
             /\ last'.resp.status = 201
             /\ Len(users') = Len(users) + 1
             /\ users'[Len(users')].email = RegisterEmail(p.req)]_vars

\* two overlapping register requests for one email both answered 201 and
\* left two records
C13_Witness ==
    /\ Len(users) = 2
    /\ users[1].email = users[2].email
    /\ users[1].provider = "credentials"
    /\ users[2].provider = "credentials"
    /\ last.op = "register"
    /\ last.resp.status = 201
    /\ Len(last.before) = 1
    /\ last.before[1].email = RegisterEmail(last.req)

====
